---- MODULE Spec2Model ----
(***************************************************************************)
(* Model of the rhythm game of GymScene (src/unnamed/part_000): the beat   *)
(* chart builder buildChartEasy and the timing / judgment engine made of   *)
(* the frame loop (tick), attemptHit, pauseGame / resumeGame, retry,       *)
(* primeAndStart and the audio source's onended callback.                  *)
(*                                                                         *)
(* Time is counted in milliseconds, so that every constant of the source   *)
(* (0.17 s, 0.22 s, 0.44 s, 0.6 s, 0.06 s, 0.01 s) is an integer.  The     *)
(* tempi used are those whose beat period 60/bpm is a whole, even number   *)
(* of milliseconds; floating point rounding of t += beat is not modelled.  *)
(*                                                                         *)
(* React scheduling.  A useState setter does not change what the running   *)
(* callbacks see: callbacks read the values captured at the render that    *)
(* created them.  The model keeps three layers:                            *)
(*   st  the hook state with every queued update applied,                  *)
(*   rd  the state of the last committed render (closures of the JSX       *)
(*       onClick handlers, visibility of the overlays),                    *)
(*   fx  the render whose passive effects (useEffect) have run (closures   *)
(*       of the window listeners, the frame loop subscription, and the     *)
(*       values the ref-sync effects wrote).                               *)
(* Updates made in a discrete event handler (keydown, click) are committed *)
(* before the next event; updates made in requestAnimationFrame, timer,    *)
(* promise or audio callbacks are committed by a later Render step.        *)
(* Passive effects run in a later FlushEffects step, at the latest at the  *)
(* start of the next render.  A ref (useRef) changes at once.              *)
(***************************************************************************)
EXTENDS Integers, Sequences, FiniteSets, TLC

VARIABLES
    bc,       \* buildChartEasy: its arguments, locals and loop position
    st,       \* useState values, queued updates applied
    rd,       \* useState values of the last committed render
    fx,       \* useState values of the render whose effects have run
    ref,      \* useRef .current values
    audio,    \* the AudioContext clock and its buffer sources (limit: the
              \* clock time up to which this context is followed)
    task,     \* pending asynchronous work: start timer, primeAndStart
    h         \* history of the last operation (observation only)

vars == <<bc, st, rd, fx, ref, audio, task, h>>

----------------------------------------------------------------------------
(* Small helpers *)

Max(a, b) == IF a >= b THEN a ELSE b
Min(a, b) == IF a <= b THEN a ELSE b
Abs(a) == IF a >= 0 THEN a ELSE 0 - a

\* clamp(v, lo, hi) = Math.max(lo, Math.min(hi, v))
clamp(v, lo, hi) == Max(lo, Min(hi, v))

NoLane == 0 - 1      \* last = null
Null == 0 - 1        \* a ref holding null where the value is a number

----------------------------------------------------------------------------
(* buildChartEasy *)

\* beat indices b in 0..139 for which
\*   r = (Math.sin((b + 1) * 123.456) + 1) / 2  is not below skipChance 0.55
KeptBeats ==
    {1, 4, 7, 10, 12, 13, 15, 16, 18, 21, 24, 27, 29, 30, 32, 33, 35, 38,
     41, 44, 47, 49, 50, 52, 53, 55, 58, 61, 64, 66, 67, 69, 70, 72, 75, 78,
     81, 84, 86, 87, 89, 90, 92, 95, 98, 101, 103, 104, 106, 107, 109, 112,
     115, 118, 121, 123, 124, 126, 127, 129, 132, 135, 138}

\* r < skipChance
SkipBeat(beatIndex) == beatIndex \notin KeptBeats

\* floor(frac(Math.sin(i * 777.77) * 10000) * 4) for i in 0..79
LaneTable ==
    <<0, 3, 2, 2, 2, 0, 0, 2, 1, 2, 3, 1, 3, 2, 2, 1, 3, 2, 3, 2,
      2, 0, 0, 1, 1, 2, 2, 1, 0, 2, 2, 2, 0, 2, 3, 2, 3, 2, 0, 3,
      3, 0, 2, 2, 2, 2, 1, 0, 3, 1, 0, 3, 2, 1, 2, 0, 2, 1, 1, 2,
      0, 0, 3, 1, 1, 0, 3, 0, 3, 0, 2, 3, 0, 3, 2, 2, 3, 2, 3, 1>>

\* a lane function that rounds up: Math.ceil(frac * 4), a value in 1..4
seededLaneCeil(i) == LaneTable[i + 1] + 1

\* seededLane (lines 104-108)
seededLane(i) == LaneTable[i + 1]

doubleEvery == 32
MinGap == 440        \* t - lastTime < 0.44
TailMargin == 600    \* duration - 0.6

\* non-finite numbers: +Infinity and -Infinity are numbers beyond every
\* other one of the model (60 / Infinity is 0, Math.max(1, -Infinity) is 1);
\* NaN is a value of its own, which arithmetic hands on and which every
\* comparison answers with false
PosInfinity == 1000000 * 1000
NegInfinity == 0 - PosInfinity
NaN == NegInfinity - 1

\* beat = 60 / Math.max(1, bpm), in milliseconds
Beat(bpm) == IF bpm = NaN THEN NaN ELSE 60000 \div Max(1, bpm)

\* the locals of buildChartEasy before the loop
ChartStart(bpm, offset, duration) ==
    [bpm |-> bpm, offset |-> offset, duration |-> duration,
     beat |-> Beat(bpm), t |-> Max(0, offset), beatIndex |-> 0, i |-> 0,
     last |-> NoLane, lastTime |-> 0 - 999000,
     notes |-> <<>>, dbl |-> <<>>, pc |-> "loop"]

\* the loop condition  t < duration - 0.6
LoopCond(b) == b.t # NaN /\ b.t < b.duration - TailMargin

\* the loop increment  t += beat, beatIndex += 1
LoopInc(b) ==
    [b EXCEPT !.t = IF b.beat = NaN THEN NaN ELSE @ + b.beat,
              !.beatIndex = @ + 1]

\* the loop without its minimum gap test
GapSkipNever(b) == FALSE

GapSkip(b) == b.t - b.lastTime < MinGap

\* the seeded lane taken as it is, whatever the lane before
PickLaneNoBump(b) == seededLane(b.i)

\* lane = seededLane(i); if (last !== null && lane === last) lane = (lane + 1) % 4
PickLane(b) ==
    LET lane == seededLane(b.i)
    IN  IF b.last # NoLane /\ lane = b.last THEN (lane + 1) % 4 ELSE lane

Note(i, lane, time) == [id |-> i, lane |-> lane, time |-> time, hit |-> FALSE]

\* lines 121-127: push the primary note
EmitPrimary(b) ==
    LET lane == PickLane(b)
    IN  [b EXCEPT !.last = lane,
                  !.notes = Append(@, Note(b.i, lane, b.t)),
                  !.dbl = Append(@, FALSE),
                  !.i = @ + 1,
                  !.lastTime = b.t]

\* a double note pushed whether or not it falls into the tail of the track
MakeDoubleNoTail(b) ==
    /\ b.beatIndex > 0
    /\ b.beatIndex % doubleEvery = 0

\* makeDouble && t + beat * 0.5 < duration - 0.6, read before the primary's push
MakeDouble(b) ==
    /\ b.beatIndex > 0
    /\ b.beatIndex % doubleEvery = 0
    /\ b.beat # NaN
    /\ b.t + b.beat \div 2 < b.duration - TailMargin

\* a double note placed half a beat before its primary note
EmitDoubleNextLane(p, t) ==
    LET lane2 == (p.last + 1) % 4
    IN  [p EXCEPT !.last = lane2,
                  !.notes = Append(@, Note(p.i, lane2, t + p.beat \div 2)),
                  !.dbl = Append(@, TRUE),
                  !.i = @ + 1,
                  !.lastTime = t + p.beat \div 2]

EmitDoubleEarly(p, t) ==
    LET lane2 == (p.last + 2) % 4
    IN  [p EXCEPT !.last = lane2,
                  !.notes = Append(@, Note(p.i, lane2, t - p.beat \div 2)),
                  !.dbl = Append(@, TRUE),
                  !.i = @ + 1,
                  !.lastTime = t - p.beat \div 2]

\* lines 131-135: push the double note; p is the state after the primary's push
EmitDouble(p, t) ==
    LET lane2 == (p.last + 2) % 4
    IN  [p EXCEPT !.last = lane2,
                  !.notes = Append(@, Note(p.i, lane2, t + p.beat \div 2)),
                  !.dbl = Append(@, TRUE),
                  !.i = @ + 1,
                  !.lastTime = t + p.beat \div 2]

\* one pass through the loop body and the increment
ChartStep(b) ==
    IF SkipBeat(b.beatIndex) \/ GapSkip(b)
    THEN LoopInc(b)
    ELSE IF MakeDouble(b)
         THEN LoopInc(EmitDouble(EmitPrimary(b), b.t))
         ELSE LoopInc(EmitPrimary(b))

RECURSIVE ChartRun(_)
ChartRun(b) == IF LoopCond(b) THEN ChartRun(ChartStep(b)) ELSE b.notes

buildChartEasy(bpm, offset, duration) == ChartRun(ChartStart(bpm, offset, duration))

----------------------------------------------------------------------------
(* The engine: constants of GymScene *)

HIT == 170             \* const HIT = 0.17
MissTolerance == 220   \* notes[0].time < t - 0.22
StartLead == 60        \* startAt = ac.currentTime + 0.06
EndGuard == 10         \* buffer.duration - 0.01
BpmLo == 70
BpmHi == 180
BpmDefault == 120      \* det.bpm || 120
OffsetHi == 2500
BaseMax == 140
BaseMin == 10
NullTime == 0 - 1000000   \* startAcTimeRef.current = null

Lanes == 0 .. 3        \* KEY_TO_LANE: KeyA, KeyS, KeyK, KeyL

\* const STREAK_THRESHOLD = 18
STREAK_THRESHOLD == 18

\* const streakMode = combo >= STREAK_THRESHOLD
streakMode(combo) == combo >= STREAK_THRESHOLD

\* a multiplier whose top band starts one combo late
MultiplierLate(combo) ==
    IF combo > 18 THEN 16
    ELSE IF combo >= 14 THEN 8
    ELSE IF combo >= 10 THEN 4
    ELSE IF combo >= 6 THEN 2
    ELSE 1

\* multiplier = useMemo(..., [combo])
Multiplier(combo) ==
    IF combo >= 18 THEN 16
    ELSE IF combo >= 14 THEN 8
    ELSE IF combo >= 10 THEN 4
    ELSE IF combo >= 6 THEN 2
    ELSE 1

\* Math.round(140 * (1 - dt / HIT)): round half up of 140 * (HIT - dt) / HIT
RoundBase(dt) == (2 * BaseMax * (HIT - dt) + HIT) \div (2 * HIT)

\* the base score without its floor of 10
BaseNoFloor(dt) == RoundBase(dt)

\* base = Math.max(10, Math.round(140 * (1 - dt / HIT)))
Base(dt) == Max(BaseMin, RoundBase(dt))

----------------------------------------------------------------------------
(* Bounds of the model *)

MaxClock == 2500       \* the clock of a new context is followed up to this time
MaxStreakClock == 1500 \* how far the clock is followed from a run taken up mid-way
MaxPauses == 1         \* pauses followed
MaxMisses == 1         \* failed presses are followed up to this miss count
MaxRetries == 1        \* retry clicks followed

\* the gaps between two steps of the audio clock that the model follows
ClockSteps == {500}

\* the track: the decoded buffer's duration and what guess() detects in it
Tracks == { [dur |-> 2300, bpm |-> 150, offset |-> 0] }

----------------------------------------------------------------------------
(* Audio sources *)

\* src.stop(): a playing source stops and its ended event is queued
StopSource(a, id) ==
    IF \E s \in a.playing : s.id = id
    THEN [a EXCEPT !.playing = {s \in @ : s.id # id}, !.stopped = @ + 1]
    ELSE a

\* cleanupAudio, its effect on the refs
cleanupAudioRef(r) ==
    [r EXCEPT !.sourceRef = Null, !.acRef = FALSE, !.gainRef = FALSE,
              !.bufferRef = FALSE, !.startAcTimeRef = NullTime,
              !.manualStopRef = FALSE]

\* cleanupAudio, its effect on the audio context: src.stop(), then ac.close()
cleanupAudioCtx(r, a) ==
    IF r.acRef
    THEN [StopSource(a, r.sourceRef) EXCEPT !.playing = {}, !.time = 0, !.seq = 0,
                                            !.limit = MaxClock]
    ELSE StopSource(a, r.sourceRef)

\* resetRunState, the useState part
resetRunStateSt(s) ==
    [s EXCEPT !.score = 0, !.combo = 0, !.hits = 0, !.misses = 0, !.paused = FALSE,
              !.renderNotes = <<>>]

\* resetRunState, the useRef part
resetRunStateRef(r) ==
    [r EXCEPT !.maxComboRef = 0, !.songTimeRef = 0, !.pausedSongTimeRef = 0]

\* startSourceAt: can it start (ac, g and buffer are set)
CanStartSource(r) == r.acRef /\ r.gainRef /\ r.bufferRef

\* startSourceAt that anchors the song clock at startAt, forgetting the offset
startSourceAtRefNoOffset(r, a, offsetSeconds) ==
    [r EXCEPT !.sourceRef = a.seq + 1,
              !.startAcTimeRef = a.time + StartLead]

\* startSourceAt(offsetSeconds), its effect on the refs
startSourceAtRef(r, a, offsetSeconds) ==
    [r EXCEPT !.sourceRef = a.seq + 1,
              !.startAcTimeRef = (a.time + StartLead) - offsetSeconds]

\* startSourceAt(offsetSeconds), the source it starts: it plays the buffer
\* from Math.max(0, offsetSeconds) to its end, beginning at startAt
startSourceAtCtx(a, offsetSeconds) ==
    [a EXCEPT !.seq = @ + 1,
              !.playing = @ \cup
                 {[id |-> a.seq + 1,
                   endAt |-> a.time + StartLead + (a.dur - Max(0, offsetSeconds))]}]

----------------------------------------------------------------------------
(* Rendering *)

\* the passive effects of the render r, run after the render f:
\*   pausedRef.current = paused                          (deps [paused])
\*   if (combo > maxComboRef.current) maxComboRef.current = combo  (deps [combo])
RunEffects(r, f, rf) ==
    [rf EXCEPT !.pausedRef = r.paused,
               !.maxComboRef = IF r.combo # f.combo /\ r.combo > @
                               THEN r.combo ELSE @]

\* what a render hands to the callbacks it creates and to the JSX conditions:
\* started, ready, ended (closures of pauseGame, resumeGame, togglePause,
\* attemptHit, primeAndStart, onStartClick), combo (multiplier), paused
\* (pausedRef effect, pause overlay), showStartModal and starting
Snap(s) ==
    [started |-> s.started, ready |-> s.ready, ended |-> s.ended,
     paused |-> s.paused, combo |-> s.combo,
     showStartModal |-> s.showStartModal, starting |-> s.starting]

\* a commit of the state s; pending effects of the previous commit run first
Commit(s, rf) ==
    /\ st' = s
    /\ rd' = Snap(s)
    /\ fx' = rd
    /\ ref' = RunEffects(rd, fx, rf)

----------------------------------------------------------------------------
(* Initial state: the component is mounted, nothing has started *)

St0 ==
    [started |-> FALSE, ready |-> FALSE, ended |-> FALSE, paused |-> FALSE,
     duration |-> 0, score |-> 0, combo |-> 0, hits |-> 0, misses |-> 0,
     showStartModal |-> TRUE, starting |-> FALSE, renderNotes |-> <<>>]

Ref0 ==
    [acRef |-> FALSE, gainRef |-> FALSE, bufferRef |-> FALSE,
     sourceRef |-> Null, startAcTimeRef |-> NullTime, manualStopRef |-> FALSE,
     notesRef |-> <<>>, pausedRef |-> FALSE, pausedSongTimeRef |-> 0,
     songTimeRef |-> 0, maxComboRef |-> 0]

Audio0(tr) ==
    [dur |-> tr.dur, bpm |-> tr.bpm, offset |-> tr.offset,
     time |-> 0, playing |-> {}, stopped |-> 0, seq |-> 0, limit |-> MaxClock]

Task0 == [timer |-> FALSE, prime |-> "none"]

H0 ==
    [op |-> "init", inWindow |-> FALSE, judged |-> "none", dt |-> 0, mult |-> 0,
     removed |-> 0, matched |-> {}, rematch |-> FALSE,
     resumed |-> FALSE, resumeAt |-> 0, resumeT |-> 0,
     sinceRetry |-> FALSE, retryNotes |-> <<>>, retries |-> 0, pauses |-> 0,
     peak |-> 0, lane |-> NoLane, gone |-> <<>>, out |-> {}]

\* the history of an operation named op that judges nothing
Did(op) == [h EXCEPT !.op = op, !.inWindow = FALSE, !.judged = "none",
                     !.dt = 0, !.mult = 0, !.removed = 0, !.lane = NoLane,
                     !.gone = <<>>]

BcIdle == [pc |-> "idle"]

Init ==
    /\ bc = BcIdle
    /\ st = St0
    /\ rd = Snap(St0)
    /\ fx = Snap(St0)
    /\ ref = Ref0
    /\ audio \in {Audio0(tr) : tr \in Tracks}
    /\ task = Task0
    /\ h = H0

----------------------------------------------------------------------------
(* primeAndStart *)

\* const detBpm = Math.max(70, Math.min(180, det.bpm || 120))
DetBpm(a) == clamp(IF a.bpm = 0 THEN BpmDefault ELSE a.bpm, BpmLo, BpmHi)

\* const detOffset = Math.max(0, Math.min(2.5, det.offset ?? 0))
DetOffset(a) == clamp(a.offset, 0, OffsetHi)

\* primeAndStart up to its first await (lines 784-798), useState part
primeBeginSt(s) == resetRunStateSt([s EXCEPT !.ready = FALSE, !.ended = FALSE])

\* primeAndStart up to its first await, useRef part: cleanupAudio,
\* resetRunState, then a new AudioContext and gain node
primeBeginRef(r) ==
    [resetRunStateRef(cleanupAudioRef(r)) EXCEPT !.acRef = TRUE, !.gainRef = TRUE]

\* primeAndStart up to its first await, the audio side: the old context is
\* closed and a new one starts its clock
primeBeginCtx(r, a) ==
    [cleanupAudioCtx(r, a) EXCEPT !.playing = {}, !.time = 0, !.seq = 0,
                                  !.limit = MaxClock]

\* the timer callback's lines after  await primeAndStart()  (1086-1089)
afterPrime(s, who, ok) ==
    IF who = "start"
    THEN [s EXCEPT !.starting = FALSE,
                   !.showStartModal = IF ok THEN @ ELSE TRUE]
    ELSE s

\* primeAndStart after its awaits (lines 803-820) or its catch (822-827).
\* loaded: fetch, decodeAudioData and guess all resolved.
PrimeFinish(loaded) ==
    /\ task.prime # "none"
    /\ LET r1 == [ref EXCEPT !.bufferRef = TRUE,
                             !.notesRef = buildChartEasy(DetBpm(audio),
                                              DetOffset(audio), audio.dur)]
           ok == loaded /\ CanStartSource(r1)
       IN  IF ok
           THEN /\ ref' = startSourceAtRef(r1, audio, 0)
                /\ audio' = startSourceAtCtx(audio, 0)
                /\ st' = afterPrime([st EXCEPT !.duration = audio.dur,
                                       !.started = TRUE, !.ready = TRUE,
                                       !.paused = FALSE], task.prime, TRUE)
                /\ h' = [H0 EXCEPT !.op = "primeStarted", !.retries = h.retries,
                                    !.pauses = h.pauses]
           ELSE /\ ref' = cleanupAudioRef(IF loaded THEN r1 ELSE ref)
                /\ audio' = cleanupAudioCtx(ref, audio)
                /\ st' = afterPrime([st EXCEPT
                                       !.duration = IF loaded THEN audio.dur ELSE @,
                                       !.started = FALSE, !.ready = FALSE,
                                       !.ended = FALSE, !.paused = FALSE],
                                    task.prime, FALSE)
                /\ h' = [Did("primeFailed") EXCEPT
                            !.out = IF loaded THEN {} ELSE @]
    /\ task' = [task EXCEPT !.prime = "none"]
    /\ UNCHANGED <<bc, rd, fx>>

\* onStartClick (lines 1061-1091): the start modal's button
StartClick ==
    /\ rd.showStartModal /\ ~rd.started /\ ~rd.ended
    /\ ~(rd.starting \/ rd.started \/ rd.ready)
    /\ task' = [task EXCEPT !.timer = TRUE]
    /\ Commit([st EXCEPT !.showStartModal = FALSE, !.starting = TRUE], ref)
    /\ h' = Did("env")
    /\ UNCHANGED <<bc, audio>>

\* the start timer fires (line 1084): primeAndStart runs up to its first await.
\* Its closure was made while started was false.
StartTimer ==
    /\ task.timer
    /\ task.prime = "none"
    /\ task' = [timer |-> FALSE, prime |-> "start"]
    /\ st' = primeBeginSt(st)
    /\ ref' = primeBeginRef(ref)
    /\ audio' = primeBeginCtx(ref, audio)
    /\ h' = Did("env")
    /\ UNCHANGED <<bc, rd, fx>>

\* retry (lines 1016-1033): the button of the pause overlay or of the results
\* overlay.  primeAndStart is the callback of the last committed render: it
\* returns at once when that render had started = true.
Retry ==
    /\ (rd.paused /\ rd.started /\ ~rd.ended) \/ rd.ended
    /\ task.prime = "none"
    /\ LET s1 == resetRunStateSt([st EXCEPT !.starting = FALSE,
                     !.showStartModal = FALSE, !.started = FALSE,
                     !.ready = FALSE, !.ended = FALSE, !.paused = FALSE])
           r1 == resetRunStateRef(cleanupAudioRef(ref))
           a1 == cleanupAudioCtx(ref, audio)
       IN  IF rd.started
           THEN /\ Commit(s1, r1)
                /\ audio' = a1
                /\ task' = [timer |-> FALSE, prime |-> "none"]
           ELSE /\ Commit(primeBeginSt(s1), primeBeginRef(r1))
                /\ audio' = primeBeginCtx(r1, a1)
                /\ task' = [timer |-> FALSE, prime |-> "retry"]
    /\ h.retries < MaxRetries
    /\ h' = [H0 EXCEPT !.op = "retry", !.sinceRetry = TRUE,
                       !.retryNotes = ref.notesRef,
                       !.retries = h.retries + 1, !.pauses = h.pauses]
    /\ UNCHANGED bc

----------------------------------------------------------------------------
(* pauseGame, resumeGame, togglePause *)

\* off = clamp(pausedSongTimeRef.current, 0, Math.max(0, buffer.duration - 0.01))
ResumeOffset(r, a) == clamp(r.pausedSongTimeRef, 0, Max(0, a.dur - EndGuard))

\* pauseGame (lines 831-845) with the closure c
pauseGame(c) ==
    IF ~c.started \/ c.ended \/ ref.pausedRef \/ ref.sourceRef = Null
    THEN /\ UNCHANGED <<st, rd, fx, ref, audio>>
         /\ UNCHANGED h
    ELSE /\ h.pauses < MaxPauses
         /\ Commit([st EXCEPT !.paused = TRUE],
                   [ref EXCEPT !.pausedSongTimeRef = ref.songTimeRef,
                               !.manualStopRef = TRUE,
                               !.sourceRef = Null])
         /\ audio' = StopSource(audio, ref.sourceRef)
         /\ h' = [Did("pause") EXCEPT !.pauses = @ + 1]

\* resumeGame (lines 847-861) with the closure c
resumeGame(c) ==
    IF ~c.started \/ c.ended \/ ~ref.pausedRef
       \/ ~ref.acRef \/ ~ref.bufferRef \/ ~CanStartSource(ref)
    THEN /\ UNCHANGED <<st, rd, fx, ref, audio>>
         /\ UNCHANGED h
    ELSE /\ Commit([st EXCEPT !.paused = FALSE, !.ready = TRUE],
                   startSourceAtRef(ref, audio, ResumeOffset(ref, audio)))
         /\ audio' = startSourceAtCtx(audio, ResumeOffset(ref, audio))
         /\ h' = [Did("resume") EXCEPT !.resumed = TRUE,
                                       !.resumeAt = audio.time,
                                       !.resumeT = ref.pausedSongTimeRef]

\* togglePause (lines 863-867) with the closure c
togglePause(c) ==
    IF ~c.started \/ c.ended
    THEN /\ UNCHANGED <<st, rd, fx, ref, audio>>
         /\ UNCHANGED h
    ELSE IF ref.pausedRef THEN resumeGame(c) ELSE pauseGame(c)

\* the Escape key (lines 869-877): the window listener holds the togglePause
\* of the render whose effects have run
EscapeKey ==
    /\ togglePause(fx)
    /\ UNCHANGED <<bc, task>>

\* the pause button and the pause overlay's resume button (lines 2149, 2171):
\* onClick is the togglePause of the last committed render
PauseButton ==
    /\ togglePause(rd)
    /\ UNCHANGED <<bc, task>>

----------------------------------------------------------------------------
(* The frame loop *)

\* expiry that shifts out at most one note per frame
ExpireOne(notes, t) ==
    IF notes # <<>> /\ Head(notes).time < t - MissTolerance
    THEN Tail(notes)
    ELSE notes

\* while (notes.length && notes[0].time < t - 0.22) { ...; notes.shift() }
RECURSIVE Expire(_, _)
Expire(notes, t) ==
    IF notes # <<>> /\ Head(notes).time < t - MissTolerance
    THEN Expire(Tail(notes), t)
    ELSE notes

\* the notes the while loop shifts out
Expired(notes, t) == SubSeq(notes, 1, Len(notes) - Len(Expire(notes, t)))

\* how many of them run the miss branch  if (!notes[0].hit)
MissCount(notes, t) ==
    Cardinality({k \in 1 .. Len(Expired(notes, t)) : ~Expired(notes, t)[k].hit})

\* expiry that counts the misses but keeps the combo
expireStKeepCombo(s, m) == [s EXCEPT !.misses = @ + m]

\* the miss branch run m times: setCombo(0); setMisses((m) => m + 1)
expireSt(s, m) ==
    [s EXCEPT !.combo = IF m > 0 THEN 0 ELSE @, !.misses = @ + m]

\* const travel = 2.35, and the 0.35 s a note stays visible after its time
travel == 2350
ViewPast == 350

\* notes.filter((n) => n.time >= t - 0.35 && n.time <= t + travel)
View(notes, t) ==
    SelectSeq(notes, LAMBDA n : n.time >= t - ViewPast /\ n.time <= t + travel)

\* a frame that filters the queue before the while loop has shifted it
PublishEarly(notes, t) == View(notes, t)

\* the view a frame publishes: the filter applied to the queue the while
\* loop has left (lines 904-914)
Publish(notes, t) == View(Expire(notes, t), t)

\* const t = Math.max(0, ac.currentTime - startAt)
SongTimeAt(r, a) == Max(0, a.time - r.startAcTimeRef)

\* tick (lines 886-919); the loop runs while the effect of a render with
\* started = true is in place
Tick ==
    /\ fx.started
    /\ IF ref.pausedRef
       THEN /\ UNCHANGED <<st, ref>>
            /\ h' = Did("tickPaused")
       ELSE IF ref.acRef /\ ref.startAcTimeRef # NullTime
       THEN LET t == SongTimeAt(ref, audio)
                m == MissCount(ref.notesRef, t)
            IN  /\ ref' = [ref EXCEPT !.songTimeRef = t,
                                      !.notesRef = Expire(@, t)]
                /\ st' = [expireSt(st, m) EXCEPT
                            !.renderNotes = Publish(ref.notesRef, t)]
                /\ h' = [Did("tick") EXCEPT
                            !.removed = Len(Expired(ref.notesRef, t)),
                            !.gone = Expired(ref.notesRef, t),
                            !.out = @ \cup
                                {<<Expired(ref.notesRef, t)[k].id, "miss">> :
                                    k \in 1 .. Len(Expired(ref.notesRef, t))}]
       ELSE /\ UNCHANGED <<st, ref>>
            /\ UNCHANGED h
    /\ UNCHANGED <<bc, rd, fx, audio, task>>

----------------------------------------------------------------------------
(* attemptHit *)

\* a scan that takes the last note of the lane within the window
ScanLatest(notes, i, lane, t) ==
    LET S == {k \in i .. Len(notes) :
                 notes[k].lane = lane /\ Abs(notes[k].time - t) <= HIT}
    IN  IF S = {} THEN 0 ELSE CHOOSE k \in S : \A j \in S : j <= k

\* a scan that takes the first note within the window whatever its lane
RECURSIVE ScanAnyLane(_, _, _, _)
ScanAnyLane(notes, i, lane, t) ==
    IF i > Len(notes) THEN 0
    ELSE IF notes[i].time > t + HIT THEN 0
    ELSE IF Abs(notes[i].time - t) <= HIT THEN i
    ELSE ScanAnyLane(notes, i + 1, lane, t)

\* the for loop of attemptHit (lines 960-984) from index i: the index of the
\* note it hits, or 0 when it ends without a hit
RECURSIVE Scan(_, _, _, _)
Scan(notes, i, lane, t) ==
    IF i > Len(notes) THEN 0
    ELSE IF notes[i].time > t + HIT THEN 0
    ELSE IF notes[i].lane # lane THEN Scan(notes, i + 1, lane, t)
    ELSE IF Abs(notes[i].time - t) <= HIT THEN i
    ELSE Scan(notes, i + 1, lane, t)

\* a hit that raises the combo and the score but not the hit count
hitStNoCount(s, add) == [s EXCEPT !.combo = @ + 1, !.score = @ + add]

\* a hit: setHits((h) => h + 1); setCombo((c) => c + 1); setScore((s) => s + add)
hitSt(s, add) ==
    [s EXCEPT !.hits = @ + 1, !.combo = @ + 1, !.score = @ + add]

\* no hit: setCombo(0); setMisses((m) => m + 1)
failSt(s) == [s EXCEPT !.combo = 0, !.misses = @ + 1]

\* a hit that leaves the note in the queue
SpliceNone(notes, i) == notes

\* notes.splice(i, 1)
Splice(notes, i) == SubSeq(notes, 1, i - 1) \o SubSeq(notes, i + 1, Len(notes))

\* observation: some pending note of the lane is within the hit window of t
InWindow(notes, lane, t) ==
    \E k \in 1 .. Len(notes) :
        notes[k].lane = lane /\ Abs(notes[k].time - t) <= HIT

\* attemptHit passes its first line:  if (!ready || pausedRef.current || ended) return
HitGuard(c, r) == c.ready /\ ~r.pausedRef /\ ~c.ended

\* a lane key (lines 997-1010, 952-992); the window listener holds the
\* attemptHit of the render whose effects have run
LanePress(lane) ==
    /\ fx.started
    /\ IF ref.pausedRef
       THEN /\ UNCHANGED <<st, rd, fx, ref>>
            /\ h' = Did("pressIgnored")
       ELSE IF ~HitGuard(fx, ref)
       THEN /\ Commit(st, ref)
            /\ h' = Did("pressIgnored")
       ELSE LET t == ref.songTimeRef
                i == Scan(ref.notesRef, 1, lane, t)
            IN  IF i > 0
                THEN LET dt == Abs(ref.notesRef[i].time - t)
                         add == Base(dt) * Multiplier(fx.combo)
                     IN  /\ Commit(hitSt(st, add),
                                   [ref EXCEPT !.notesRef = Splice(@, i)])
                         /\ h' = [Did("press") EXCEPT
                                    !.inWindow = InWindow(ref.notesRef, lane, t),
                                    !.judged = "success", !.lane = lane,
                                    !.dt = dt, !.mult = Multiplier(fx.combo),
                                    !.peak = Max(@, st.combo + 1),
                                    !.matched = @ \cup {ref.notesRef[i].id},
                                    !.out = @ \cup {<<ref.notesRef[i].id, "hit">>},
                                    !.rematch = @ \/ ref.notesRef[i].id \in h.matched]
                ELSE /\ st.misses < MaxMisses
                     /\ Commit(failSt(st), ref)
                     /\ h' = [Did("press") EXCEPT
                                    !.inWindow = InWindow(ref.notesRef, lane, t),
                                    !.judged = "fail"]
    /\ UNCHANGED <<bc, audio, task>>

----------------------------------------------------------------------------
(* The audio clock and the sources' ended events *)

\* an ended handler that returns early whatever manualStopRef holds
onendedSwallow ==
    /\ ref' = [ref EXCEPT !.manualStopRef = FALSE]
    /\ UNCHANGED st
    /\ h' = Did("env")

\* src.onended (lines 759-771)
onended ==
    IF ref.manualStopRef
    THEN /\ ref' = [ref EXCEPT !.manualStopRef = FALSE]
         /\ UNCHANGED st
         /\ h' = Did("env")
    ELSE /\ st' = [st EXCEPT !.ready = FALSE, !.started = FALSE,
                             !.ended = TRUE, !.paused = FALSE,
                             !.renderNotes = <<>>]
         /\ ref' = [ref EXCEPT !.songTimeRef = audio.dur]
         /\ h' = Did("ended")

\* a source has played its buffer to the end: its ended event is delivered
NaturalEnd ==
    /\ \E s \in audio.playing :
          /\ audio.time >= s.endAt
          /\ audio' = [audio EXCEPT !.playing = @ \ {s}]
    /\ onended
    /\ UNCHANGED <<bc, rd, fx, task>>

\* the ended event of a source that stop() stopped is delivered
StoppedEnd ==
    /\ audio.stopped > 0
    /\ audio' = [audio EXCEPT !.stopped = @ - 1]
    /\ onended
    /\ UNCHANGED <<bc, rd, fx, task>>

\* somebody can still read the clock of the current context: a source is
\* playing, primeAndStart is about to start one, or a run is started in the
\* state, in the last render or in the render whose effects are in place
ClockObserved ==
    \/ audio.playing # {}
    \/ task.prime # "none"
    \/ st.started \/ rd.started \/ fx.started

\* ac.currentTime advances while a context exists; the clock of a context
\* that nothing reads any more is not followed
ClockAdvance ==
    /\ ref.acRef
    /\ ClockObserved
    /\ \E d \in ClockSteps :
          /\ audio.time + d <= audio.limit
          /\ audio' = [audio EXCEPT !.time = @ + d]
    /\ h' = Did("env")
    /\ UNCHANGED <<bc, st, rd, fx, ref, task>>

----------------------------------------------------------------------------
(* React: commit of queued updates, passive effects *)

Render ==
    /\ Snap(st) # rd
    /\ Commit(st, ref)
    /\ h' = Did("env")
    /\ UNCHANGED <<bc, audio, task>>

FlushEffects ==
    /\ fx # rd
    /\ fx' = rd
    /\ ref' = RunEffects(rd, fx, ref)
    /\ h' = Did("env")
    /\ UNCHANGED <<bc, st, rd, audio, task>>

----------------------------------------------------------------------------

Next ==
    \/ StartClick
    \/ StartTimer
    \/ \E loaded \in BOOLEAN : PrimeFinish(loaded)
    \/ Retry
    \/ EscapeKey
    \/ PauseButton
    \/ Tick
    \/ \E lane \in Lanes : LanePress(lane)
    \/ NaturalEnd
    \/ StoppedEnd
    \/ ClockAdvance
    \/ Render
    \/ FlushEffects

Spec == Init /\ [][Next]_vars

\* the browser delivers every queued ended event, React runs every render
\* and every effect pass it has scheduled, and the promises primeAndStart
\* awaits settle
SpecFair ==
    /\ Spec
    /\ WF_vars(NaturalEnd) /\ WF_vars(StoppedEnd)
    /\ WF_vars(Render) /\ WF_vars(FlushEffects)
    /\ WF_vars(\E loaded \in BOOLEAN : PrimeFinish(loaded))

----------------------------------------------------------------------------
(* The engine taken up in the middle of a run with a streak *)

\* a longer track, one beat every 500 ms
StreakTrack == [dur |-> 25000, bpm |-> 120, offset |-> 440]

\* the numbers of notes already hit when the run is taken up
StreakStarts == {5, 6, 9, 13, 17}

\* the score after c hits in a row with no timing error
RECURSIVE StreakScore(_)
StreakScore(c) ==
    IF c = 0 THEN 0 ELSE StreakScore(c - 1) + Base(0) * Multiplier(c - 1)

\* the state of a run of the track tr in which the first c notes were each
\* hit by a press in the frame of their time, right after the press on
\* note c has been rendered and its effects have run
MidRun(tr, c) ==
    LET a0 == Audio0(tr)
        chart == buildChartEasy(DetBpm(a0), DetOffset(a0), a0.dur)
        T == chart[c].time
        s == [St0 EXCEPT !.started = TRUE, !.ready = TRUE,
                         !.showStartModal = FALSE, !.duration = a0.dur,
                         !.score = StreakScore(c), !.combo = c, !.hits = c,
                         !.renderNotes =
                             View(SubSeq(chart, c, Len(chart)), T)]
        r0 == [Ref0 EXCEPT !.acRef = TRUE, !.gainRef = TRUE, !.bufferRef = TRUE]
    IN  /\ st = s
        /\ rd = Snap(s)
        /\ fx = Snap(s)
        /\ ref = [startSourceAtRef(r0, a0, 0) EXCEPT
                     !.notesRef = SubSeq(chart, c + 1, Len(chart)),
                     !.songTimeRef = T, !.maxComboRef = c]
        /\ audio = [startSourceAtCtx(a0, 0) EXCEPT
                     !.time = T + StartLead,
                     !.limit = T + StartLead + MaxStreakClock]
        /\ task = Task0
        /\ h = [H0 EXCEPT !.op = "env", !.peak = c,
                          !.matched = {chart[k].id : k \in 1 .. c},
                          !.out = {<<chart[k].id, "hit">> : k \in 1 .. c}]
        /\ bc = BcIdle

InitStreak == Init \/ \E c \in StreakStarts : MidRun(StreakTrack, c)

SpecStreak == InitStreak /\ [][Next]_vars

----------------------------------------------------------------------------
(* attemptHit applied to queues with several notes close together *)

\* how far the clock is followed from such a queue
MaxHitClock == 500

\* scheduled times of the queued notes, their lanes, and the song times of
\* the frame before the press
HitTimes == {1120, 1200, 1300, 1500}
HitLanes == {0, 1}
HitSongTimes == {1150, 1330}

\* the queues in ascending time order (the order buildChartEasy pushes in)
\* of three notes not yet expired at song time T
HitQueues(T) ==
    { [k \in 1 .. 3 |-> Note(k - 1, ls[k], ts[k])] :
        ts \in {x \in [1 .. 3 -> HitTimes] :
                    /\ x[1] < x[2] /\ x[2] < x[3]
                    /\ x[1] >= T - MissTolerance},
        ls \in [1 .. 3 -> HitLanes] }

\* a run of the track tr with the queue q, right after the frame at song
\* time T has been rendered and its effects have run
MidHit(tr, q, T) ==
    LET a0 == Audio0(tr)
        s == [St0 EXCEPT !.started = TRUE, !.ready = TRUE,
                         !.showStartModal = FALSE, !.duration = a0.dur,
                         !.renderNotes = View(q, T)]
        r0 == [Ref0 EXCEPT !.acRef = TRUE, !.gainRef = TRUE, !.bufferRef = TRUE]
    IN  /\ st = s
        /\ rd = Snap(s)
        /\ fx = Snap(s)
        /\ ref = [startSourceAtRef(r0, a0, 0) EXCEPT
                     !.notesRef = q, !.songTimeRef = T]
        /\ audio = [startSourceAtCtx(a0, 0) EXCEPT
                     !.time = T + StartLead,
                     !.limit = T + StartLead + MaxHitClock]
        /\ task = Task0
        /\ h = [H0 EXCEPT !.op = "env"]
        /\ bc = BcIdle

InitHit ==
    \/ Init
    \/ \E tr \in Tracks, T \in HitSongTimes :
          \E q \in HitQueues(T) : MidHit(tr, q, T)

SpecHit == InitHit /\ [][Next]_vars

----------------------------------------------------------------------------
(* buildChartEasy run one loop pass at a time, for a range of arguments *)

ChartBpms == {0, 60, 75, 100, 120, 150}
ChartOffsets == {0 - 200, 0, 300}
ChartDurations == {0, 500, 3000, 10000, 13500, 14000, 34000}

\* calls with a non-finite bpm or a duration that is zero or negative
DegenerateCalls ==
    { <<NaN, 0, 10000>>, <<PosInfinity, 0, 10000>>, <<NegInfinity, 0, 10000>>,
      <<NegInfinity, 0, 61000>>, <<120, 0, 0>>, <<120, 300, 0 - 5000>> }

\* a finite bpm, standing for 1e18, so large that beat = 60 / bpm = 6e-17 s
\* is less than half the spacing of the doubles from 1 s on: t += beat
\* leaves such a t as it is, which adding a beat of 0 ms does here
HugeBpm == PosInfinity - 1

\* calls with that bpm and an offset of 1 s
HugeCalls == { <<HugeBpm, 1000, 10000>> }

\* the calls followed
ChartCalls ==
    {<<bpm, offset, duration>> : bpm \in ChartBpms, offset \in ChartOffsets,
                                  duration \in ChartDurations}
        \cup DegenerateCalls \cup HugeCalls

\* loop passes followed in one call
MaxBeatIndex == 139

InitChart ==
    /\ bc \in {ChartStart(c[1], c[2], c[3]) @@ [call |-> 1, first |-> <<>>] :
                  c \in ChartCalls}
    /\ st = St0
    /\ rd = Snap(St0)
    /\ fx = Snap(St0)
    /\ ref = Ref0
    /\ audio = Audio0([dur |-> 0, bpm |-> 0, offset |-> 0])
    /\ task = Task0
    /\ h = H0

Engine == <<st, rd, fx, ref, audio, task, h>>

\* if (r < skipChance) continue
ChartSkip ==
    /\ bc.pc = "loop" /\ LoopCond(bc) /\ bc.beatIndex < MaxBeatIndex
    /\ SkipBeat(bc.beatIndex)
    /\ bc' = ChartStep(bc)
    /\ UNCHANGED Engine

\* if (t - lastTime < 0.44) continue
ChartGapSkip ==
    /\ bc.pc = "loop" /\ LoopCond(bc) /\ bc.beatIndex < MaxBeatIndex
    /\ ~SkipBeat(bc.beatIndex) /\ GapSkip(bc)
    /\ bc' = ChartStep(bc)
    /\ UNCHANGED Engine

\* a pass that pushes a primary note only
ChartEmit ==
    /\ bc.pc = "loop" /\ LoopCond(bc) /\ bc.beatIndex < MaxBeatIndex
    /\ ~SkipBeat(bc.beatIndex) /\ ~GapSkip(bc) /\ ~MakeDouble(bc)
    /\ bc' = ChartStep(bc)
    /\ UNCHANGED Engine

\* a pass that pushes a primary note and its double
ChartEmitDouble ==
    /\ bc.pc = "loop" /\ LoopCond(bc) /\ bc.beatIndex < MaxBeatIndex
    /\ ~SkipBeat(bc.beatIndex) /\ ~GapSkip(bc) /\ MakeDouble(bc)
    /\ bc' = ChartStep(bc)
    /\ UNCHANGED Engine

\* the loop condition fails: return notes
ChartReturn ==
    /\ bc.pc = "loop" /\ ~LoopCond(bc)
    /\ bc' = [bc EXCEPT !.pc = "done"]
    /\ UNCHANGED Engine

\* a call that finds the lane of the previous call's last note in  last
RecallKeepLast(b) ==
    [ChartStart(b.bpm, b.offset, b.duration) EXCEPT !.last = b.last]

\* the locals of a further call with the arguments of the call b: they are
\* declared inside the function, nothing is carried over
Recall(b) == ChartStart(b.bpm, b.offset, b.duration)

\* buildChartEasy is called a second time with the same arguments; the
\* chart of the first call is kept for comparison
ChartAgain ==
    /\ bc.pc = "done" /\ bc.call = 1
    /\ bc' = Recall(bc) @@ [call |-> 2, first |-> bc.notes]
    /\ UNCHANGED Engine

NextChart ==
    \/ ChartAgain
    \/ ChartSkip
    \/ ChartGapSkip
    \/ ChartEmit
    \/ ChartEmitDouble
    \/ ChartReturn

SpecChart == InitChart /\ [][NextChart]_vars

\* a call that has started runs on
SpecChartFair == SpecChart /\ WF_vars(NextChart)

\* the chart buildChartEasy has returned
Returned == bc.pc = "done"

----------------------------------------------------------------------------
(* Claims *)

\* C2 as stated: in a returned chart any two adjacent notes are at least
\* 0.44 s apart.
C2_MinSpacingAll ==
    Returned =>
        \A k \in 1 .. Len(bc.notes) - 1 :
            bc.notes[k + 1].time - bc.notes[k].time >= MinGap

\* C2 (amended): in a returned chart any two adjacent notes are at least
\* 0.44 s apart unless the later one is an injected double note; a double
\* note follows a primary note by exactly half a beat.
C2_MinSpacingPrimary ==
    Returned =>
        \A k \in 1 .. Len(bc.notes) - 1 :
            IF bc.dbl[k + 1]
            THEN /\ ~bc.dbl[k]
                 /\ 2 * (bc.notes[k + 1].time - bc.notes[k].time) = bc.beat
            ELSE bc.notes[k + 1].time - bc.notes[k].time >= MinGap

\* a returned chart that holds a double note closer than 0.44 s to its
\* primary, and a primary note after it
C2_Witness ==
    /\ Returned
    /\ \E k \in 2 .. Len(bc.notes) - 1 :
          /\ bc.dbl[k]
          /\ bc.notes[k].time - bc.notes[k - 1].time < MinGap

\* C1 as stated: after a resume, a frame that runs when the audio clock has
\* advanced by D past the resume computes the song time T + D, T being the
\* song time at which the run was paused.
C1_ResumeExact ==
    (h.op = "tick" /\ h.resumed) =>
        ref.songTimeRef = h.resumeT + (audio.time - h.resumeAt)

\* C1 (amended): after a resume, whatever the delay, such a frame computes
\* max(0, T' + D - 0.06), where T' is T clamped to [0, duration - 0.01]: the
\* resumed source is scheduled 0.06 s after the resume.
C1_ResumeContinuity ==
    (h.op = "tick" /\ h.resumed) =>
        ref.songTimeRef =
            Max(0, clamp(h.resumeT, 0, Max(0, audio.dur - EndGuard))
                     + (audio.time - h.resumeAt) - StartLead)

\* a frame after a resume that came at least one clock step after the frame
\* that computed T, with the clock advanced past the resume
C1_Witness ==
    /\ h.op = "tick" /\ h.resumed
    /\ h.resumeT > 0
    /\ h.resumeAt - (h.resumeT + StartLead) >= 500
    /\ audio.time > h.resumeAt

\* C3: no note of the run's chart is matched by more than one successful press.
C3_JudgmentExclusive == ~h.rematch

\* two notes of the run have each been matched by a successful press
C3_Witness == h.judged = "success" /\ Cardinality(h.matched) = 2

\* C4: after a frame that expired at least one note, and after a press that
\* found no note, combo is 0.
C4_MissResetsCombo ==
    /\ (h.op = "tick" /\ h.removed > 0) => st.combo = 0
    /\ (h.op = "press" /\ h.judged = "fail") => st.combo = 0

\* a frame expires a note after a hit and with no earlier miss: the combo
\* was 1 before the frame
C4_Witness ==
    /\ h.op = "tick" /\ h.removed = 1
    /\ st.hits = 1 /\ st.misses = 1 /\ st.combo = 0

\* C5: a press that attemptHit judges is a success exactly when some pending
\* note of its lane is within 0.17 s of the song time; a success removes
\* exactly one note, which is within 0.17 s, and counts no miss; a fail adds
\* one miss, sets combo to 0 and leaves the queue as it was.
C5_Step ==
    h'.op = "press" =>
        /\ h'.judged \in {"success", "fail"}
        /\ h'.judged = "success" <=> h'.inWindow
        /\ h'.judged = "success" =>
              /\ \E k \in 1 .. Len(ref.notesRef) :
                    /\ ref'.notesRef = Splice(ref.notesRef, k)
                    /\ Abs(ref.notesRef[k].time - ref.songTimeRef) <= HIT
              /\ st'.misses = st.misses
        /\ h'.judged = "fail" =>
              /\ st'.misses = st.misses + 1
              /\ st'.combo = 0
              /\ ref'.notesRef = ref.notesRef
              /\ st'.hits = st.hits /\ st'.score = st.score

C5_PressJudgment == [][C5_Step]_vars

\* a press fails while a note is pending, after an earlier press succeeded
C5_Witness ==
    /\ h.op = "press" /\ h.judged = "fail"
    /\ st.hits = 1 /\ ref.notesRef # <<>>

\* the counters and the queue a press must leave alone when it is a no-op
Judged == <<st.score, st.combo, st.hits, st.misses, ref.notesRef>>

\* C6 as stated: a lane press while the run is not started, not ready,
\* paused or ended changes neither score, combo, hits, misses nor the
\* pending queue, and emits no judgment.
C6_Step ==
    (/\ h'.op \in {"press", "pressIgnored"}
     /\ (~st.started \/ ~st.ready \/ st.paused \/ st.ended)) =>
        /\ Judged' = Judged
        /\ h'.judged = "none"

C6_PressNoop == [][C6_Step]_vars

C8_Step == (st.paused /\ st'.paused) => Judged' = Judged

C9_Step ==
    h'.op = "tick" =>
        LET n == Len(ref.notesRef) - Len(ref'.notesRef)
            t == ref'.songTimeRef
        IN  /\ \A k \in 1 .. Len(ref'.notesRef) :
                  ref'.notesRef[k].time >= t - MissTolerance
            /\ n >= 0
            /\ ref'.notesRef = SubSeq(ref.notesRef, n + 1, Len(ref.notesRef))
            /\ \A k \in 1 .. n : ref.notesRef[k].time < t - MissTolerance
            /\ st'.misses = st.misses + n
            /\ n > 0 => st'.combo = 0
            /\ n = 0 => st'.combo = st.combo
            /\ st'.hits = st.hits /\ st'.score = st.score

C9_FrameExpiry == [][C9_Step]_vars

\* one frame has expired two notes
C9_Witness == h.op = "tick" /\ h.removed = 2 /\ st.misses >= 2

\* the integers r with |r - 140 * (1 - dt / 0.17)| <= 1/2
IsRounded(r, dt) == 2 * Abs(HIT * r - BaseMax * (HIT - dt)) <= HIT

\* C10: a successful press with timing error dt adds base * multiplier to
\* score, base being max(10, round(140 * (1 - dt / 0.17))), within 10..140,
\* and the multiplier one of 1, 2, 4, 8, 16; hits and combo grow by 1 each.
C10_Step ==
    (h'.op = "press" /\ h'.judged = "success") =>
        /\ st'.hits = st.hits + 1
        /\ st'.combo = st.combo + 1
        /\ h'.mult \in {1, 2, 4, 8, 16}
        /\ h'.dt >= 0 /\ h'.dt <= HIT
        /\ \E base \in BaseMin .. BaseMax :
              /\ st'.score = st.score + base * h'.mult
              /\ \E r \in 0 .. BaseMax :
                    IsRounded(r, h'.dt) /\ base = Max(BaseMin, r)

C10_HitScore == [][C10_Step]_vars

\* a hit so late that the rounded value is below the floor of 10, after a
\* hit that scored more
C10_Witness ==
    /\ h.op = "press" /\ h.judged = "success"
    /\ h.dt > 158
    /\ st.hits = 2 /\ st.score > 2 * BaseMin

\* the combo values of the hook state, of the last render and of the render
\* whose effects are in place
Combos == {st.combo, rd.combo, fx.combo}

\* C11: the multiplier of a combo is 16 from 18 up, 8 from 14, 4 from 10,
\* 2 from 6 and 1 below; streak mode holds exactly from combo 18 up, which
\* is exactly when the multiplier is 16.
C11_MultiplierBands ==
    \A c \in Combos :
        /\ c >= 18 => Multiplier(c) = 16
        /\ (c >= 14 /\ c < 18) => Multiplier(c) = 8
        /\ (c >= 10 /\ c < 14) => Multiplier(c) = 4
        /\ (c >= 6 /\ c < 10) => Multiplier(c) = 2
        /\ c < 6 => Multiplier(c) = 1
        /\ streakMode(c) <=> c >= 18
        /\ streakMode(c) <=> Multiplier(c) = 16

\* the press that brings the combo to 18 has been rendered: it scored with
\* the multiplier 8 and the render is in streak mode
C11_Witness ==
    /\ h.op = "press" /\ h.judged = "success" /\ h.mult = 8
    /\ rd.combo = 18 /\ streakMode(rd.combo)

\* the final statistics of a run
Stats == <<st.score, st.combo, st.hits, st.misses, ref.maxComboRef>>

\* C12 as stated: from the step that ends the run on, and as long as no
\* retry has made it not ended, no step changes score, combo, hits, misses
\* or max combo.
C12_Step == (st.ended /\ st'.ended) => Stats' = Stats

C12_EndedFrozen == [][C12_Step]_vars

\* a frame of a started run has computed a song time of at least the
\* track's duration
SongOver ==
    /\ h.op = "tick" /\ st.duration > 0
    /\ ref.songTimeRef >= st.duration

\* the run is ended and the frame loop is no longer subscribed
EndedAndStopped == st.ended /\ ~fx.started

Settled == rd = Snap(st) /\ fx = rd

C16_Ordering ==
    Returned =>
        \A k \in 1 .. Len(bc.notes) - 1 :
            bc.notes[k].time <= bc.notes[k + 1].time

\* a returned chart with a primary note, its double note and the next
\* primary note, at three different times
C16_Witness ==
    /\ Returned
    /\ \E k \in 2 .. Len(bc.notes) - 1 :
          /\ bc.dbl[k]
          /\ bc.notes[k - 1].time < bc.notes[k].time
          /\ bc.notes[k].time < bc.notes[k + 1].time

\* the primary notes of a chart, in order: the chart without its doubles
RECURSIVE Primaries(_, _)
Primaries(notes, dbl) ==
    IF notes = <<>> THEN <<>>
    ELSE IF Head(dbl) THEN Primaries(Tail(notes), Tail(dbl))
    ELSE <<Head(notes)>> \o Primaries(Tail(notes), Tail(dbl))

\* C17 as stated: in a returned chart with the double notes left out, no two
\* successive notes have the same lane.
C17_NoRepeatLane ==
    Returned =>
        LET p == Primaries(bc.notes, bc.dbl)
        IN  \A k \in 1 .. Len(p) - 1 : p[k].lane # p[k + 1].lane

\* C17 (amended): in a returned chart no two adjacent notes have the same
\* lane, double notes counted: a primary note differs from the note before
\* it, a double note from its primary.
C17_NoRepeatAdjacent ==
    Returned =>
        \A k \in 1 .. Len(bc.notes) - 1 :
            bc.notes[k].lane # bc.notes[k + 1].lane

\* a returned chart in which the primary notes before and after a double
\* note have the same lane
C17_Witness ==
    /\ Returned
    /\ \E k \in 2 .. Len(bc.notes) - 1 :
          /\ bc.dbl[k] /\ ~bc.dbl[k + 1]
          /\ bc.notes[k - 1].lane = bc.notes[k + 1].lane

\* C18: every note of a returned chart, primary or double, has
\* max(0, offset) <= time < duration - 0.6.
C18_TimeBounds ==
    Returned =>
        \A k \in 1 .. Len(bc.notes) :
            /\ Max(0, bc.offset) <= bc.notes[k].time
            /\ bc.notes[k].time < bc.duration - TailMargin

\* buildChartEasy(120, 0, 10) has returned: its notes lie within [0, 9.4] and a
\* note is less than a beat away from the tail
C18_Witness ==
    /\ Returned
    /\ bc.bpm = 120 /\ bc.offset = 0 /\ bc.duration = 10000
    /\ bc.notes # <<>>
    /\ bc.notes[Len(bc.notes)].time + bc.beat >= bc.duration - TailMargin

\* the call has a non-finite bpm or a duration that is zero or negative
Degenerate == bc.bpm \in {NaN, PosInfinity, NegInfinity} \/ bc.duration <= 0

\* C19 as stated: a call with degenerate arguments returns, and the chart
\* it returns is empty.
C19_DegenerateEmpty == Degenerate ~> (Returned /\ bc.notes = <<>>)

\* C20 as stated: the multiplier a successful press applies to its score
\* delta is the banded multiplier of the combo current at that press, every
\* update queued so far counted.
C20_Step ==
    (h'.op = "press" /\ h'.judged = "success") =>
        h'.mult = Multiplier(st.combo)

C20_NoDrift == [][C20_Step]_vars

\* C21 as stated: the step that makes the run ended is the ended callback of
\* a source that played to its end, never that of a source stopped for a
\* pause; and while the run stays ended it is neither paused nor started.
C21_Step ==
    /\ (~st.ended /\ st'.ended) => audio'.stopped = audio.stopped
    /\ (st.ended /\ st'.ended) => (~st'.paused /\ ~st'.started)

C21_EndedOnlyByCompletion == [][C21_Step]_vars

\* primeAndStart has just made a run running: started and ready, with the
\* chart built for the track as its pending queue
NewRun ==
    /\ h.op = "primeStarted"
    /\ st.started /\ st.ready
    /\ ref.notesRef = buildChartEasy(DetBpm(audio), DetOffset(audio), audio.dur)

\* C22 as stated: after every retry a new run becomes running, unless
\* loading the audio or detecting its beat fails.
C22_RetryRestarts == (h.op = "retry") ~> (NewRun \/ h.op = "primeFailed")

\* the pending notes of a lane within the hit window of song time t
Candidates(notes, lane, t) ==
    {k \in 1 .. Len(notes) :
        notes[k].lane = lane /\ Abs(notes[k].time - t) <= HIT}

\* C23: when several pending notes of the pressed lane lie within the hit
\* window, a successful press removes exactly the one with the smallest
\* scheduled time and leaves every other note, the later ones of the window
\* included, in the queue in the same order.
C23_Step ==
    (h'.op = "press" /\ h'.judged = "success") =>
        LET notes == ref.notesRef
            C == Candidates(notes, h'.lane, ref.songTimeRef)
        IN  \E i \in C :
               /\ \A j \in C : notes[i].time <= notes[j].time
               /\ \A j \in C : j # i => notes[i].time < notes[j].time
               /\ ref'.notesRef = Splice(notes, i)
               /\ \A j \in C \ {i} :
                     \E k \in 1 .. Len(ref'.notesRef) :
                        ref'.notesRef[k] = notes[j]
C23_EarliestFirst == [][C23_Step]_vars

\* a press has hit a note while another note of the same lane, still
\* pending, is within the hit window of the same song time
C23_Witness ==
    /\ h.op = "press" /\ h.judged = "success"
    /\ Candidates(ref.notesRef, h.lane, ref.songTimeRef) # {}

\* C24: in a frame that publishes a visible window, every note of the window
\* is in the pending queue the frame leaves, was not shifted out by this
\* frame's expiry, was not hit, and has its time in
\* [songTime - 0.35, songTime + 2.35].
C24_Step ==
    (h'.op = "tick") =>
        LET t == ref'.songTimeRef
            view == st'.renderNotes
            gone == Expired(ref.notesRef, t)
        IN  \A k \in 1 .. Len(view) :
               /\ \E j \in 1 .. Len(ref'.notesRef) : ref'.notesRef[j] = view[k]
               /\ \A j \in 1 .. Len(gone) : gone[j] # view[k]
               /\ view[k].id \notin h'.matched
               /\ view[k].time >= t - ViewPast
               /\ view[k].time <= t + travel
C24_ViewAfterExpiry == [][C24_Step]_vars

\* a frame has shifted out a note less than 0.35 s past its time and has
\* published a window that is not empty
C24_Witness ==
    /\ h.op = "tick"
    /\ st.renderNotes # <<>>
    /\ \E k \in 1 .. Len(h.gone) :
          h.gone[k].time >= ref.songTimeRef - ViewPast

\* C25: of the notes of the run's chart, none has left the queue both as a
\* hit and as an expiry miss, and none that has left is in the queue again;
\* so each note leaves at most once and a hit note is never counted as a miss.
C25_NoteStates ==
    /\ \A a, b \in h.out : a[1] = b[1] => a = b
    /\ \A a \in h.out :
          \A k \in 1 .. Len(ref.notesRef) : ref.notesRef[k].id # a[1]

\* one note of the run has left as a hit and another as an expiry miss
C25_Witness ==
    \E a, b \in h.out : a[2] = "hit" /\ b[2] = "miss"

\* C26: every double note of a chart follows at once a primary note pushed
\* at a beat index that is a positive multiple of 32, has the time
\* primaryTime + beat/2, which is before duration - 0.6, and has the lane
\* (primaryLane + 2) mod 4, which is not the primary's lane.
C26_DoubleRules ==
    (bc.pc # "idle") =>
        \A k \in 1 .. Len(bc.notes) :
            bc.dbl[k] =>
                /\ k > 1 /\ ~bc.dbl[k - 1]
                /\ bc.beat > 0
                /\ LET p == bc.notes[k - 1]
                       n == bc.notes[k]
                       since == p.time - Max(0, bc.offset)
                   IN  /\ since % bc.beat = 0
                       /\ since \div bc.beat > 0
                       /\ (since \div bc.beat) % doubleEvery = 0
                       /\ n.time = p.time + bc.beat \div 2
                       /\ n.time < bc.duration - TailMargin
                       /\ n.lane = (p.lane + 2) % 4
                       /\ n.lane # p.lane

\* a returned chart with doubles after the primaries of two different beat
\* indices
C26_Witness ==
    /\ Returned
    /\ Cardinality({k \in 1 .. Len(bc.notes) : bc.dbl[k]}) >= 2

\* the chart primeAndStart builds for the track (line 812)
RunChart == buildChartEasy(DetBpm(audio), DetOffset(audio), audio.dur)

\* the notes of the run that the frame loop shifted out as misses
ExpiryMisses == Cardinality({a \in h.out : a[2] = "miss"})

\* C27: while a run is on, hits + misses caused by expiry + pending notes is
\* the number of notes of the chart built for the run; so hits never exceeds
\* the chart length.
C27_Conservation ==
    st.started =>
        /\ st.hits + ExpiryMisses + Len(ref.notesRef) = Len(RunChart)
        /\ st.hits <= Len(RunChart)

\* a run with notes hit, a note expired and notes pending
C27_Witness ==
    /\ st.started
    /\ st.hits > 0 /\ ExpiryMisses > 0 /\ ref.notesRef # <<>>

C29_AdjacentLanes ==
    Returned =>
        /\ \A k \in 1 .. Len(bc.notes) : bc.notes[k].lane \in Lanes
        /\ \A k \in 2 .. Len(bc.notes) :
              bc.notes[k - 1].lane # bc.notes[k].lane

\* a returned chart with a double note and a primary note whose seeded lane
\* was that of the note before it and was moved on to the next lane
C29_Witness ==
    /\ Returned
    /\ \E k \in 1 .. Len(bc.notes) : bc.dbl[k]
    /\ \E k \in 2 .. Len(bc.notes) :
          /\ ~bc.dbl[k]
          /\ seededLane(bc.notes[k].id) = bc.notes[k - 1].lane
          /\ bc.notes[k].lane = (bc.notes[k - 1].lane + 1) % 4

\* a call whose bpm, offset and duration are all finite numbers
ChartFinite == bc.pc # "idle" /\ bc.bpm \notin {NaN, PosInfinity, NegInfinity}

\* the passes made so far are at most
\* max(0, ceil((duration - 0.6 - max(0, offset)) / beat))
WithinPasses ==
    bc.beatIndex > 0 =>
        (bc.beatIndex - 1) * bc.beat <
            bc.duration - TailMargin - Max(0, bc.offset)

\* C30 as stated: a call with finite arguments returns, and has made at most
\* ceil((duration - 0.6 - max(0, offset)) / beat) loop passes at any point.
C30_Terminates ==
    /\ (bc.pc = "loop" /\ ChartFinite) ~> Returned
    /\ [](ChartFinite => WithinPasses)
====
